---- MODULE Spec2Model ----
(***************************************************************************)
(* Model of src/tree/SlotTreeItemBase.ts: the remote site node             *)
(* (SlotTreeItemBase) with its lazily filled metadata caches and its       *)
(* lazily created children.                                                *)
(*                                                                         *)
(* Every async method is cut at its awaits: one action runs the code from  *)
(* the call (or from the resumption of an await) up to the next await or   *)
(* the return.  The answer of the remote client at an await is chosen      *)
(* nondeterministically: a value or a rejection.                           *)
(*                                                                         *)
(* The same file holds PythonInitVSCodeStep with the two ignore-file       *)
(* merges, ensureGitIgnoreContents and ensureVenvInFuncIgnore.  The step   *)
(* awaits one file operation after the other and nothing else writes the   *)
(* project directory, so a merge is one action: the file it finds, the     *)
(* file it leaves, and whether it called writeFile.  Strings that are      *)
(* searched or concatenated are sequences of characters.                   *)
(***************************************************************************)
EXTENDS Integers, Sequences, FiniteSets, TLC

VARIABLES
    state,                  \* _state
    cachedVersion,          \* _cachedVersion
    cachedHostJson,         \* _cachedHostJson
    cachedIsConsumption,    \* _cachedIsConsumption
    functionsTreeItem,      \* _functionsTreeItem
    proxiesTreeItem,        \* _proxiesTreeItem
    deploymentsNode,        \* deploymentsNode
    calls,                  \* the method calls in progress, one per caller
    fetches,                \* history: remote fetches issued since the last refreshImpl
    staleCache,             \* history: cache holds a value that predates the last refreshImpl
    lastResponse,           \* history: last answer the remote gave to each cached accessor
    created,                \* history: number of children of each kind created so far
    firstReturned,          \* history: children returned by the first completed load
    lastLoaded,             \* history: deployments node of the most recently completed load
    files,                  \* the project's .gitignore and .funcignore
    inputs,                 \* the arguments the ignore-file merges are called with
    log,                    \* history: the ignore-file merges made, oldest first
    step,                   \* PythonInitVSCodeStep: _venvName, requiresFuncExtensionsInstall, settings
    tasks                   \* what getTasks returned last

nodeVars == <<state, cachedVersion, cachedHostJson, cachedIsConsumption>>
treeVars == <<functionsTreeItem, proxiesTreeItem, deploymentsNode>>
cacheHistory == <<fetches, staleCache, lastResponse>>
treeHistory == <<created, firstReturned, lastLoaded>>
projectVars == <<files, inputs, log, step, tasks>>
vars == <<state, cachedVersion, cachedHostJson, cachedIsConsumption,
          functionsTreeItem, proxiesTreeItem, deploymentsNode, calls,
          fetches, staleCache, lastResponse, created, firstReturned, lastLoaded,
          files, inputs, log, step, tasks>>

(***************************************************************************)
(* Values.  A string-typed optional is the string or Undefined; an object  *)
(* typed optional is a record or UndefinedObj; a missing property of an    *)
(* object is a field the record does not have.                             *)
(***************************************************************************)
Undefined == "undefined"
UndefinedObj == [kind |-> "undefined"]

\* A settled promise: resolved with a value, or rejected.
Resolved(v) == [ok |-> TRUE, value |-> v]
Rejected == [ok |-> FALSE]

\* Value of obj.key in JavaScript: undefined when the property is missing.
GetProp(obj, key) == IF key \in DOMAIN obj THEN obj[key] ELSE Undefined

Callers == {"c1", "c2"}
SeqCallers == {"c1"}

\* ---- remote answers -----------------------------------------------------
StateValues == {"Running", "Stopped"}
StateResponses == {Rejected} \cup {Resolved(s) : s \in StateValues}

FuncVersion == {"~1", "~2", "~3"}
latestGAVersion == "~3"
VersionKey == "FUNCTIONS_EXTENSION_VERSION"
SettingValues == FuncVersion \cup {"beta", ""}
EmptySettings == [k \in {} |-> ""]
PropertyValues == {EmptySettings} \cup {(VersionKey :> v) : v \in SettingValues}
StringDictionaries ==
    {[id |-> "appsettings"]}
        \cup {[id |-> "appsettings", properties |-> p] : p \in PropertyValues}
SettingsResponses == {Rejected} \cup {Resolved(d) : d \in StringDictionaries}

SiteConfigs == {[scmType |-> "None"], [scmType |-> "GitHub"]}
SiteConfigResponses == {Rejected} \cup {Resolved(v) : v \in SiteConfigs}
SourceControls == {[repoUrl |-> "none"], [repoUrl |-> "https://github.com/org/repo"]}
SourceControlResponses == {Rejected} \cup {Resolved(v) : v \in SourceControls}
\* createFunctionsTreeItem and createProxiesTreeItem build and load the child.
CreateResponses == {Rejected, Resolved([kind |-> "created"])}

KuduResponses == {Rejected, Resolved([kind |-> "kudu"])}
HostSettings == {[version |-> "2.0"], [version |-> "2.0", extensionBundle |-> "bundle"]}
HostSettingsResponses == {Rejected} \cup {Resolved(h) : h \in HostSettings}

Dynamic == <<"d", "y", "n", "a", "m", "i", "c">>
Tiers == {<<>>, Dynamic,
          <<"D", "y", "n", "a", "m", "i", "c">>,
          <<"D", "Y", "N", "A", "M", "I", "C">>,
          <<"B", "a", "s", "i", "c">>}
Skus == {[name |-> "sku"]} \cup {[name |-> "sku", tier |-> t] : t \in Tiers}
AppServicePlans ==
    {UndefinedObj, [name |-> "plan"]}
        \cup {[name |-> "plan", sku |-> s] : s \in Skus}
PlanResponses == {Rejected} \cup {Resolved(p) : p \in AppServicePlans}

\* ---- pure helpers -------------------------------------------------------
\* tryParseFuncVersion (FuncVersion.ts): a member of the enumeration, or undefined.
tryParseFuncVersion(data) == IF data \in FuncVersion THEN data ELSE Undefined

\* parseHostJson (funcConfig/host.ts): a normalized object built from both inputs.
parseHostJson(data, version) == [kind |-> "hostJson", data |-> data, version |-> version]

\* String.prototype.toLowerCase on the letters the tiers use.
UpperToLower ==
    ("A" :> "a") @@ ("B" :> "b") @@ ("C" :> "c") @@ ("D" :> "d") @@ ("I" :> "i")
        @@ ("M" :> "m") @@ ("N" :> "n") @@ ("S" :> "s") @@ ("Y" :> "y")
toLowerCase(s) ==
    [i \in 1..Len(s) |-> IF s[i] \in DOMAIN UpperToLower THEN UpperToLower[s[i]] ELSE s[i]]

\* JavaScript truthiness of a string | undefined.
TruthyString(s) == s # Undefined /\ s # ""

\* ---- call records -------------------------------------------------------
\* hit: the call was served from a cache; stale: the call read a remote
\* answer or a cache value that predates the last refreshImpl; deployments:
\* the deployments node the call created; args: the call's argument.
IdleCall ==
    [pc |-> "idle", op |-> "none", outcome |-> "none", result |-> Undefined,
     hit |-> FALSE, stale |-> FALSE, data |-> UndefinedObj, version |-> Undefined,
     siteConfig |-> UndefinedObj, sourceControl |-> UndefinedObj,
     deployments |-> UndefinedObj, args |-> <<>>]
NewCall(op, pc) == [IdleCall EXCEPT !.op = op, !.pc = pc, !.outcome = "pending"]
Return(rec, result) == [rec EXCEPT !.pc = "done", !.outcome = "returned", !.result = result]
Throw(rec) == [rec EXCEPT !.pc = "done", !.outcome = "threw"]
CanStart(c) == calls[c].pc = "idle"

\* History counters stop counting at MaxCount.
MaxCount == 3
Bump(f, k) == [f EXCEPT ![k] = IF @ < MaxCount THEN @ + 1 ELSE @]
SetCall(c, rec) == calls' = [calls EXCEPT ![c] = rec]

NoResponse == [ok |-> FALSE, none |-> TRUE]

\* The caller's await of the promise an async method returned resumes with
\* the result or the exception; the caller may then make its next call.
awaited(c) ==
    /\ calls[c].pc = "done"
    /\ SetCall(c, IdleCall)
    /\ UNCHANGED <<nodeVars, treeVars, cacheHistory, treeHistory>>
    /\ UNCHANGED projectVars

(***************************************************************************)
(* refreshImpl                                                             *)
(***************************************************************************)
\* Mutant: the refresh forgets the host configuration.
InvalidatedCachesKeepHostJson ==
    [version |-> Undefined, hostJson |-> cachedHostJson, isConsumption |-> Undefined]

\* The three assignments that open refreshImpl.
InvalidatedCaches ==
    [version |-> Undefined, hostJson |-> UndefinedObj, isConsumption |-> Undefined]

\* Mutant: a failed getState leaves the state as it was.
RefreshedStateKeepOnError(resp) == IF resp.ok THEN resp.value ELSE state

\* try { this._state = await getState() } catch { this._state = 'Unknown' }
RefreshedState(resp) == IF resp.ok THEN resp.value ELSE "Unknown"

\* The call awaits a remote fetch whose answer it will cache, or has read
\* the version it will parse the host configuration with.
FetchIssued(d) ==
    calls[d].pc \in {"getVersion:listApplicationSettings",
                     "getHostJson:getHostSettings", "getHostJson:getVersion",
                     "getIsConsumption:getAppServicePlan"}

\* The call: clears the caches, then awaits getState.  Every other call with
\* a fetch issued will cache an answer that predates this refresh.
refreshImpl(c) ==
    /\ CanStart(c)
    /\ cachedVersion' = InvalidatedCaches.version
    /\ cachedHostJson' = InvalidatedCaches.hostJson
    /\ cachedIsConsumption' = InvalidatedCaches.isConsumption
    /\ calls' = [d \in Callers |->
                    IF d = c THEN NewCall("refreshImpl", "refreshImpl:getState")
                    ELSE IF FetchIssued(d) THEN [calls[d] EXCEPT !.stale = TRUE]
                    ELSE calls[d]]
    /\ fetches' = [version |-> 0, hostJson |-> 0, plan |-> 0]
    /\ staleCache' = [version |-> cachedVersion' # Undefined,
                      hostJson |-> cachedHostJson' # UndefinedObj,
                      isConsumption |-> cachedIsConsumption' # Undefined]
    /\ lastResponse' = [version |-> NoResponse, plan |-> NoResponse]
    /\ UNCHANGED <<state, treeVars, treeHistory>>
    /\ UNCHANGED projectVars

\* The await of getState settles.
refreshImpl_getState(c) ==
    /\ calls[c].pc = "refreshImpl:getState"
    /\ \E resp \in StateResponses :
          /\ state' = RefreshedState(resp)
          /\ SetCall(c, Return([calls[c] EXCEPT !.data = resp], Undefined))
    /\ UNCHANGED <<cachedVersion, cachedHostJson, cachedIsConsumption,
                   treeVars, cacheHistory, treeHistory>>
    /\ UNCHANGED projectVars

(***************************************************************************)
(* getVersion                                                              *)
(***************************************************************************)
\* if (result === undefined)
VersionCached == cachedVersion # Undefined

\* Mutant: the parsed version is returned without the default.
VersionFromSettingsNoDefault(resp) ==
    IF resp.ok
    THEN tryParseFuncVersion(
             IF "properties" \in DOMAIN resp.value
             THEN GetProp(resp.value.properties, VersionKey)
             ELSE Undefined)
    ELSE Undefined

\* The try block and the default: the version the settings answer yields.
VersionFromSettings(resp) ==
    LET version ==
            IF resp.ok
            THEN tryParseFuncVersion(
                     IF "properties" \in DOMAIN resp.value
                     THEN GetProp(resp.value.properties, VersionKey)
                     ELSE Undefined)
            ELSE Undefined
    IN  IF TruthyString(version) THEN version ELSE latestGAVersion

getVersion(c) ==
    /\ CanStart(c)
    /\ IF VersionCached
       THEN /\ SetCall(c, Return([NewCall("getVersion", "done") EXCEPT
                                     !.hit = TRUE, !.stale = staleCache.version],
                                 cachedVersion))
            /\ UNCHANGED fetches
       ELSE /\ SetCall(c, NewCall("getVersion", "getVersion:listApplicationSettings"))
            /\ fetches' = Bump(fetches, "version")
    /\ UNCHANGED <<nodeVars, treeVars, staleCache, lastResponse, treeHistory>>
    /\ UNCHANGED projectVars

\* The await of listApplicationSettings settles, in a call of getVersion or
\* in the getVersion that getHostJson awaits.
getVersion_listApplicationSettings(c) ==
    /\ calls[c].pc = "getVersion:listApplicationSettings"
    /\ \E resp \in SettingsResponses :
          LET result == VersionFromSettings(resp) IN
          /\ cachedVersion' = result
          /\ staleCache' = [staleCache EXCEPT !.version = calls[c].stale]
          /\ lastResponse' = [lastResponse EXCEPT !.version = resp]
          /\ IF calls[c].op = "getVersion"
             THEN SetCall(c, Return(calls[c], result))
             ELSE SetCall(c, [calls[c] EXCEPT !.version = result,
                                              !.pc = "getHostJson:getVersion"])
    /\ UNCHANGED <<state, cachedHostJson, cachedIsConsumption, treeVars,
                   fetches, treeHistory>>
    /\ UNCHANGED projectVars

(***************************************************************************)
(* getHostJson                                                             *)
(***************************************************************************)
\* if (!result)
HostJsonCached == cachedHostJson # UndefinedObj

\* const version = await this.getVersion(): runs getVersion up to its await
\* of listApplicationSettings, or up to its return when the version is cached.
AwaitGetVersion(c, rec) ==
    IF VersionCached
    THEN /\ SetCall(c, [rec EXCEPT !.version = cachedVersion,
                                   !.stale = @ \/ staleCache.version,
                                   !.pc = "getHostJson:getVersion"])
         /\ UNCHANGED fetches
    ELSE /\ SetCall(c, [rec EXCEPT !.pc = "getVersion:listApplicationSettings"])
         /\ fetches' = Bump(fetches, "version")

getHostJson(c) ==
    /\ CanStart(c)
    /\ IF HostJsonCached
       THEN SetCall(c, Return([NewCall("getHostJson", "done") EXCEPT
                                  !.hit = TRUE, !.stale = staleCache.hostJson],
                              cachedHostJson))
       ELSE SetCall(c, NewCall("getHostJson", "getHostJson:getKuduClient"))
    /\ UNCHANGED <<nodeVars, treeVars, cacheHistory, treeHistory>>
    /\ UNCHANGED projectVars

\* The await of getKuduClient settles: getHostSettings is requested, or the
\* catch leaves data undefined.
getHostJson_getKuduClient(c) ==
    /\ calls[c].pc = "getHostJson:getKuduClient"
    /\ \E resp \in KuduResponses :
          IF resp.ok
          THEN /\ SetCall(c, [calls[c] EXCEPT !.pc = "getHostJson:getHostSettings"])
               /\ fetches' = Bump(fetches, "hostJson")
          ELSE AwaitGetVersion(c, calls[c])
    /\ UNCHANGED <<nodeVars, treeVars, staleCache, lastResponse, treeHistory>>
    /\ UNCHANGED projectVars

\* The await of getHostSettings settles.
getHostJson_getHostSettings(c) ==
    /\ calls[c].pc = "getHostJson:getHostSettings"
    /\ \E resp \in HostSettingsResponses :
          AwaitGetVersion(c, [calls[c] EXCEPT
                                 !.data = IF resp.ok THEN resp.value ELSE UndefinedObj])
    /\ UNCHANGED <<nodeVars, treeVars, staleCache, lastResponse, treeHistory>>
    /\ UNCHANGED projectVars

\* The await of getVersion settles: parse, cache, return.
getHostJson_getVersion(c) ==
    /\ calls[c].pc = "getHostJson:getVersion"
    /\ LET result == parseHostJson(calls[c].data, calls[c].version) IN
          /\ cachedHostJson' = result
          /\ SetCall(c, Return(calls[c], result))
    /\ staleCache' = [staleCache EXCEPT !.hostJson = calls[c].stale]
    /\ UNCHANGED <<state, cachedVersion, cachedIsConsumption, treeVars,
                   fetches, lastResponse, treeHistory>>
    /\ UNCHANGED projectVars

(***************************************************************************)
(* getApplicationSettings                                                  *)
(***************************************************************************)
\* return appSettings.properties || {}
SettingsOrEmpty(dict) ==
    IF "properties" \in DOMAIN dict THEN dict.properties ELSE EmptySettings

\* Mutant: a rejection is swallowed and the empty mapping returned.
ApplicationSettingsSettledSwallow(rec, resp) ==
    Return(rec, IF resp.ok THEN SettingsOrEmpty(resp.value) ELSE EmptySettings)

\* What the settled await makes of the call: a rejection is not caught.
ApplicationSettingsSettled(rec, resp) ==
    IF resp.ok THEN Return(rec, SettingsOrEmpty(resp.value)) ELSE Throw(rec)

getApplicationSettings(c) ==
    /\ CanStart(c)
    /\ SetCall(c, NewCall("getApplicationSettings",
                          "getApplicationSettings:listApplicationSettings"))
    /\ UNCHANGED <<nodeVars, treeVars, cacheHistory, treeHistory>>
    /\ UNCHANGED projectVars

getApplicationSettings_listApplicationSettings(c) ==
    /\ calls[c].pc = "getApplicationSettings:listApplicationSettings"
    /\ \E resp \in SettingsResponses :
          SetCall(c, ApplicationSettingsSettled([calls[c] EXCEPT !.data = resp], resp))
    /\ UNCHANGED <<nodeVars, treeVars, cacheHistory, treeHistory>>
    /\ UNCHANGED projectVars

(***************************************************************************)
(* getIsConsumption                                                        *)
(***************************************************************************)
\* A boolean as the cache holds it, next to undefined.
Bool(b) == IF b THEN "true" ELSE "false"

\* Mutant: the cache is tested for truthiness, so a cached false is fetched again.
IsConsumptionCachedTruthy == cachedIsConsumption = "true"

\* if (result === undefined)
IsConsumptionCached == cachedIsConsumption # Undefined

\* Mutant: the tier is compared without toLowerCase.
IsConsumptionFromPlanCaseSensitive(resp) ==
    IF resp.ok
    THEN LET asp == resp.value IN
         \/ asp = UndefinedObj
         \/ "sku" \notin DOMAIN asp
         \/ "tier" \notin DOMAIN asp.sku
         \/ asp.sku.tier = <<>>
         \/ asp.sku.tier = Dynamic
    ELSE TRUE

\* The try block and its catch: the flag the plan answer yields.
IsConsumptionFromPlan(resp) ==
    IF resp.ok
    THEN LET asp == resp.value IN
         \/ asp = UndefinedObj
         \/ "sku" \notin DOMAIN asp
         \/ "tier" \notin DOMAIN asp.sku
         \/ asp.sku.tier = <<>>
         \/ toLowerCase(asp.sku.tier) = Dynamic
    ELSE TRUE

getIsConsumption(c) ==
    /\ CanStart(c)
    /\ IF IsConsumptionCached
       THEN /\ SetCall(c, Return([NewCall("getIsConsumption", "done") EXCEPT
                                     !.hit = TRUE, !.stale = staleCache.isConsumption],
                                 cachedIsConsumption))
            /\ UNCHANGED fetches
       ELSE /\ SetCall(c, NewCall("getIsConsumption", "getIsConsumption:getAppServicePlan"))
            /\ fetches' = Bump(fetches, "plan")
    /\ UNCHANGED <<nodeVars, treeVars, staleCache, lastResponse, treeHistory>>
    /\ UNCHANGED projectVars

getIsConsumption_getAppServicePlan(c) ==
    /\ calls[c].pc = "getIsConsumption:getAppServicePlan"
    /\ \E resp \in PlanResponses :
          LET result == Bool(IsConsumptionFromPlan(resp)) IN
          /\ cachedIsConsumption' = result
          /\ lastResponse' = [lastResponse EXCEPT !.plan = resp]
          /\ SetCall(c, Return(calls[c], result))
    /\ staleCache' = [staleCache EXCEPT !.isConsumption = calls[c].stale]
    /\ UNCHANGED <<state, cachedVersion, cachedHostJson, treeVars, fetches, treeHistory>>
    /\ UNCHANGED projectVars

(***************************************************************************)
(* loadMoreChildrenImpl                                                    *)
(***************************************************************************)
\* The children the constructor creates.
appSettingsTreeItem == [kind |-> "appSettings"]
siteFilesTreeItem == [kind |-> "siteFiles"]
logFilesTreeItem == [kind |-> "logFiles"]

\* Loads are started while fewer than MaxLoads deployments nodes exist.
MaxLoads == 2

\* Mutant: an existing deployments node is kept.
ReusedDeploymentsTreeItem(siteConfig, sourceControl) ==
    IF deploymentsNode # UndefinedObj THEN deploymentsNode
    ELSE [kind |-> "deployments", n |-> created.deployments + 1,
          siteConfig |-> siteConfig, sourceControl |-> sourceControl]

\* new DeploymentsTreeItem(this, siteConfig, sourceControl)
NewDeploymentsTreeItem(siteConfig, sourceControl) ==
    [kind |-> "deployments", n |-> created.deployments + 1,
     siteConfig |-> siteConfig, sourceControl |-> sourceControl]

\* Mutant: the functions child is created by every load.
FunctionsMissingAlways == TRUE

\* if (!this._functionsTreeItem)
FunctionsMissing == functionsTreeItem = UndefinedObj

\* Mutant: the test is inverted, so the proxies child is never created.
ProxiesMissingInverted == proxiesTreeItem # UndefinedObj

\* if (!this._proxiesTreeItem)
ProxiesMissing == proxiesTreeItem = UndefinedObj

\* The return statement, reading the fields as the step leaves them; the
\* history notes what the first completed load returned and whose
\* deployments node the last completed load created.
LoadReturn(c, rec) ==
    LET result == <<functionsTreeItem', appSettingsTreeItem, siteFilesTreeItem,
                    logFilesTreeItem, deploymentsNode', proxiesTreeItem'>>
    IN  /\ SetCall(c, Return(rec, result))
        /\ firstReturned' =
              IF firstReturned = UndefinedObj
              THEN [kind |-> "children", functions |-> result[1], proxies |-> result[6]]
              ELSE firstReturned
        /\ lastLoaded' = rec.deployments

\* From line 168 on: await createProxiesTreeItem, or return.
LoadProxies(c, rec) ==
    IF ProxiesMissing
    THEN /\ SetCall(c, [rec EXCEPT !.pc = "loadMoreChildrenImpl:createProxiesTreeItem"])
         /\ UNCHANGED <<proxiesTreeItem, firstReturned, lastLoaded>>
    ELSE /\ UNCHANGED proxiesTreeItem
         /\ LoadReturn(c, rec)

loadMoreChildrenImpl(c) ==
    /\ CanStart(c)
    /\ created.deployments < MaxLoads
    /\ SetCall(c, NewCall("loadMoreChildrenImpl", "loadMoreChildrenImpl:getSiteConfig"))
    /\ UNCHANGED <<nodeVars, treeVars, cacheHistory, treeHistory>>
    /\ UNCHANGED projectVars

loadMoreChildrenImpl_getSiteConfig(c) ==
    /\ calls[c].pc = "loadMoreChildrenImpl:getSiteConfig"
    /\ \E resp \in SiteConfigResponses :
          SetCall(c, IF resp.ok
                     THEN [calls[c] EXCEPT !.siteConfig = resp.value,
                                           !.pc = "loadMoreChildrenImpl:getSourceControl"]
                     ELSE Throw(calls[c]))
    /\ UNCHANGED <<nodeVars, treeVars, cacheHistory, treeHistory>>
    /\ UNCHANGED projectVars

\* The await of getSourceControl settles: the deployments node is replaced,
\* then the functions child is awaited if there is none yet.
loadMoreChildrenImpl_getSourceControl(c) ==
    /\ calls[c].pc = "loadMoreChildrenImpl:getSourceControl"
    /\ \E resp \in SourceControlResponses :
          IF resp.ok
          THEN LET node == NewDeploymentsTreeItem(calls[c].siteConfig, resp.value)
                   rec == [calls[c] EXCEPT !.sourceControl = resp.value,
                                           !.deployments = node]
               IN  /\ deploymentsNode' = node
                   /\ created' = Bump(created, "deployments")
                   /\ UNCHANGED functionsTreeItem
                   /\ IF FunctionsMissing
                      THEN /\ SetCall(c, [rec EXCEPT !.pc =
                                  "loadMoreChildrenImpl:createFunctionsTreeItem"])
                           /\ UNCHANGED <<proxiesTreeItem, firstReturned, lastLoaded>>
                      ELSE LoadProxies(c, rec)
          ELSE /\ SetCall(c, Throw(calls[c]))
               /\ UNCHANGED <<treeVars, treeHistory>>
    /\ UNCHANGED <<nodeVars, cacheHistory>>
    /\ UNCHANGED projectVars

loadMoreChildrenImpl_createFunctionsTreeItem(c) ==
    /\ calls[c].pc = "loadMoreChildrenImpl:createFunctionsTreeItem"
    /\ \E resp \in CreateResponses :
          IF resp.ok
          THEN /\ functionsTreeItem' = [kind |-> "functions", n |-> created.functions + 1]
               /\ created' = Bump(created, "functions")
               /\ UNCHANGED deploymentsNode
               /\ LoadProxies(c, calls[c])
          ELSE /\ SetCall(c, Throw(calls[c]))
               /\ UNCHANGED <<treeVars, treeHistory>>
    /\ UNCHANGED <<nodeVars, cacheHistory>>
    /\ UNCHANGED projectVars

loadMoreChildrenImpl_createProxiesTreeItem(c) ==
    /\ calls[c].pc = "loadMoreChildrenImpl:createProxiesTreeItem"
    /\ \E resp \in CreateResponses :
          IF resp.ok
          THEN /\ proxiesTreeItem' = [kind |-> "proxies", n |-> created.proxies + 1]
               /\ created' = Bump(created, "proxies")
               /\ UNCHANGED <<functionsTreeItem, deploymentsNode>>
               /\ LoadReturn(c, calls[c])
          ELSE /\ SetCall(c, Throw(calls[c]))
               /\ UNCHANGED <<treeVars, treeHistory>>
    /\ UNCHANGED <<nodeVars, cacheHistory>>
    /\ UNCHANGED projectVars

(***************************************************************************)
(* pickTreeItemImpl                                                        *)
(***************************************************************************)
\* An expected context value is a string or a RegExp; a RegExp carries the
\* parts of a project context value its source names.
StringValue(v) == [type |-> "string", value |-> v]
RegExpValue(source, parts) == [type |-> "RegExp", source |-> source, parts |-> parts]

AppSettingsTreeItem_contextValue == StringValue("applicationSettings")
AppSettingTreeItem_contextValue == StringValue("applicationSettingItem")
ProxiesTreeItem_contextValue == StringValue("azFuncProxies")
ProxyTreeItem_contextValue == StringValue("azFuncProxy")
ProxyTreeItem_readOnlyContextValue == StringValue("azFuncProxyReadOnly")
DeploymentsTreeItem_contextValueConnected == StringValue("deploymentsConnected")
DeploymentsTreeItem_contextValueUnconnected == StringValue("deploymentsUnconnected")
DeploymentTreeItem_contextValue == RegExpValue("^deployment/.*", {})

\* Strings DeploymentTreeItem.contextValue.test accepts.
DeploymentStrings == {"deployment/github"}
DeploymentContextValueTest(value) == value \in DeploymentStrings

\* ProjectResource.Functions, Function, Bindings, Binding
FunctionResources == {"Functions", "Function", "Bindings", "Binding"}

\* matchesAnyPart (projectContextValues.ts): the pattern names one of the parts.
matchesAnyPart(expectedContextValue, parts) == expectedContextValue.parts \cap parts # {}

\* The expected context values a caller may pass: the eight of the switch,
\* a deployment string, a function resource given as a string, and
\* patterns for a function resource and for a proxy resource.
ContextValues ==
    {AppSettingsTreeItem_contextValue, AppSettingTreeItem_contextValue,
     ProxiesTreeItem_contextValue, ProxyTreeItem_contextValue,
     ProxyTreeItem_readOnlyContextValue,
     DeploymentsTreeItem_contextValueConnected,
     DeploymentsTreeItem_contextValueUnconnected,
     DeploymentTreeItem_contextValue,
     StringValue("deployment/github"), StringValue("azFuncRemoteFunctions"),
     RegExpValue("Functions;", {"Functions"}), RegExpValue("Proxies;", {"Proxies"})}

\* Longest list of expected context values passed to pickTreeItemImpl.
MaxMarkers == 2
ContextValueLists == UNION {[1..n -> ContextValues] : n \in 0..MaxMarkers}

\* The switch statement: the field the expected context value selects.
SwitchTarget(expectedContextValue) ==
    IF expectedContextValue \in {AppSettingsTreeItem_contextValue,
                                  AppSettingTreeItem_contextValue}
    THEN "appSettingsTreeItem"
    ELSE IF expectedContextValue \in {ProxiesTreeItem_contextValue,
                                       ProxyTreeItem_contextValue,
                                       ProxyTreeItem_readOnlyContextValue}
    THEN "_proxiesTreeItem"
    ELSE IF expectedContextValue \in {DeploymentsTreeItem_contextValueConnected,
                                       DeploymentsTreeItem_contextValueUnconnected,
                                       DeploymentTreeItem_contextValue}
    THEN "deploymentsNode"
    ELSE IF expectedContextValue.type = "string"
    THEN IF DeploymentContextValueTest(expectedContextValue.value)
         THEN "deploymentsNode" ELSE "none"
    ELSE IF matchesAnyPart(expectedContextValue, FunctionResources)
    THEN "_functionsTreeItem" ELSE "none"

\* The value of a field of the node.
Field(name) ==
    IF name = "appSettingsTreeItem" THEN appSettingsTreeItem
    ELSE IF name = "_proxiesTreeItem" THEN proxiesTreeItem
    ELSE IF name = "deploymentsNode" THEN deploymentsNode
    ELSE IF name = "_functionsTreeItem" THEN functionsTreeItem
    ELSE UndefinedObj

\* Mutant: the loop goes on after a match, so the last match decides.
RECURSIVE PickLastMatch(_)
PickLastMatch(expectedContextValues) ==
    IF expectedContextValues = <<>> THEN UndefinedObj
    ELSE LET n == Len(expectedContextValues)
             last == expectedContextValues[n]
         IN  IF SwitchTarget(last) # "none" THEN Field(SwitchTarget(last))
             ELSE PickLastMatch(SubSeq(expectedContextValues, 1, n - 1))

\* The for loop: the first expected context value the switch has a return
\* for decides; undefined after the loop.
RECURSIVE PickTreeItem(_)
PickTreeItem(expectedContextValues) ==
    IF expectedContextValues = <<>> THEN UndefinedObj
    ELSE IF SwitchTarget(Head(expectedContextValues)) # "none"
    THEN Field(SwitchTarget(Head(expectedContextValues)))
    ELSE PickTreeItem(Tail(expectedContextValues))

pickTreeItemImpl(c) ==
    /\ CanStart(c)
    /\ \E expectedContextValues \in ContextValueLists :
          SetCall(c, Return([NewCall("pickTreeItemImpl", "done") EXCEPT
                                !.args = expectedContextValues],
                            PickTreeItem(expectedContextValues)))
    /\ UNCHANGED <<nodeVars, treeVars, cacheHistory, treeHistory>>
    /\ UNCHANGED projectVars

(***************************************************************************)
(* The node after its constructor, and the calls on its metadata made one  *)
(* after the other by the node's single owner.                             *)
(***************************************************************************)
NodeConstructed ==
    /\ state \in StateValues \cup {Undefined}
    /\ cachedVersion = Undefined
    /\ cachedHostJson = UndefinedObj
    /\ cachedIsConsumption = Undefined
    /\ functionsTreeItem = UndefinedObj
    /\ proxiesTreeItem = UndefinedObj
    /\ deploymentsNode = UndefinedObj
    /\ calls = [c \in Callers |-> IdleCall]
    /\ fetches = [version |-> 0, hostJson |-> 0, plan |-> 0]
    /\ staleCache = [version |-> FALSE, hostJson |-> FALSE, isConsumption |-> FALSE]
    /\ lastResponse = [version |-> NoResponse, plan |-> NoResponse]
    /\ created = [functions |-> 0, proxies |-> 0, deployments |-> 0]
    /\ firstReturned = UndefinedObj
    /\ lastLoaded = UndefinedObj

\* A file of the project directory: missing, or its contents as a string
\* (a sequence of characters).
MissingFile == [exists |-> FALSE]
File(contents) == [exists |-> TRUE, contents |-> contents]

\* _venvName when no virtual environment was found. The code only tests
\* _venvName for truthiness, which undefined and the empty string share.
NoVenv == <<>>

\* No project is being initialized.
NoProject ==
    /\ files = [gitignore |-> MissingFile, funcignore |-> MissingFile]
    /\ inputs = [lines |-> <<>>, venvName |-> NoVenv]
    /\ log = <<>>
    /\ step = [venvName |-> NoVenv, requiresFuncExtensionsInstall |-> FALSE,
               settings |-> <<>>]
    /\ tasks = <<>>

Init == NodeConstructed /\ NoProject

NextCache ==
    \E c \in SeqCallers :
        \/ refreshImpl(c)
        \/ refreshImpl_getState(c)
        \/ getVersion(c)
        \/ getVersion_listApplicationSettings(c)
        \/ getHostJson(c)
        \/ getHostJson_getKuduClient(c)
        \/ getHostJson_getHostSettings(c)
        \/ getHostJson_getVersion(c)
        \/ getApplicationSettings(c)
        \/ getApplicationSettings_listApplicationSettings(c)
        \/ getIsConsumption(c)
        \/ getIsConsumption_getAppServicePlan(c)
        \/ awaited(c)

SpecCache == Init /\ [][NextCache]_vars

\* The calls on the node's children (and refreshImpl), one after the other.
NextTree ==
    \E c \in SeqCallers :
        \/ refreshImpl(c)
        \/ refreshImpl_getState(c)
        \/ loadMoreChildrenImpl(c)
        \/ loadMoreChildrenImpl_getSiteConfig(c)
        \/ loadMoreChildrenImpl_getSourceControl(c)
        \/ loadMoreChildrenImpl_createFunctionsTreeItem(c)
        \/ loadMoreChildrenImpl_createProxiesTreeItem(c)
        \/ pickTreeItemImpl(c)
        \/ awaited(c)

SpecTree == Init /\ [][NextTree]_vars

\* A refreshImpl of a second caller may start while an accessor call of the
\* first is suspended at an await, and the other way round.
NextOverlapRefresh ==
    \/ \E c \in SeqCallers :
          \/ getVersion(c)
          \/ getVersion_listApplicationSettings(c)
          \/ getHostJson(c)
          \/ getHostJson_getKuduClient(c)
          \/ getHostJson_getHostSettings(c)
          \/ getHostJson_getVersion(c)
          \/ getIsConsumption(c)
          \/ getIsConsumption_getAppServicePlan(c)
          \/ awaited(c)
    \/ \E c \in Callers \ SeqCallers :
          \/ refreshImpl(c)
          \/ refreshImpl_getState(c)
          \/ awaited(c)

SpecOverlapRefresh == Init /\ [][NextOverlapRefresh]_vars

\* No call has touched the children, and none is loading them.
ChildrenUntouched ==
    /\ created = [functions |-> 0, proxies |-> 0, deployments |-> 0]
    /\ \A c \in Callers : calls[c].op \notin {"loadMoreChildrenImpl"}

\* No call has touched the caches, and none is reading them.
CachesUntouched ==
    /\ fetches = [version |-> 0, hostJson |-> 0, plan |-> 0]
    /\ \A c \in Callers : calls[c].op \notin {"getVersion", "getIsConsumption"}

\* Two callers overlap on one node: a call may start while another is
\* suspended at an await.  Either the callers read the version and the plan
\* of a node whose children nobody loads, or they load the children of a
\* node whose caches nobody reads.
NextOverlapOnce ==
    \E c \in Callers :
        \/ /\ ChildrenUntouched
           /\ \/ getVersion(c)
              \/ getVersion_listApplicationSettings(c)
              \/ getIsConsumption(c)
              \/ getIsConsumption_getAppServicePlan(c)
        \/ /\ CachesUntouched
           /\ \/ loadMoreChildrenImpl(c)
              \/ loadMoreChildrenImpl_getSiteConfig(c)
              \/ loadMoreChildrenImpl_getSourceControl(c)
              \/ loadMoreChildrenImpl_createFunctionsTreeItem(c)
              \/ loadMoreChildrenImpl_createProxiesTreeItem(c)
        \/ awaited(c)

SpecOverlapOnce == Init /\ [][NextOverlapOnce]_vars

(***************************************************************************)
(* The ignore-file merges: ensureGitIgnoreContents, ensureVenvInFuncIgnore *)
(***************************************************************************)
\* os.EOL, here the POSIX one; the merges only concatenate it.
EOL == <<"\n">>

\* String.prototype.includes: sub occurs in s as a substring.
Includes(s, sub) ==
    \E i \in 0..(Len(s) - Len(sub)) : SubSeq(s, i + 1, i + Len(sub)) = sub

\* Mutant: every line is taken to be missing.
LineMissingAlways(contents, line) == TRUE

\* if (!gitignoreContents.includes(line))
LineMissing(contents, line) == ~Includes(contents, line)

\* The for loop of ensureGitIgnoreContents, from the contents and the
\* writeFile flag reached so far.
RECURSIVE AppendMissingLines(_, _, _)
AppendMissingLines(gitignoreContents, lines, writeFile) ==
    IF lines = <<>>
    THEN [contents |-> gitignoreContents, writeFile |-> writeFile]
    ELSE IF LineMissing(gitignoreContents, Head(lines))
    THEN AppendMissingLines(gitignoreContents \o EOL \o Head(lines), Tail(lines), TRUE)
    ELSE AppendMissingLines(gitignoreContents, Tail(lines), writeFile)

\* Mutant: every line is looked for in the contents read from the file.
MergeFromOriginal(gitignoreContents, lines) ==
    LET missing == SelectSeq(lines, LAMBDA l : ~Includes(gitignoreContents, l))
        Joined[n \in 0..Len(missing)] ==
            IF n = 0 THEN gitignoreContents ELSE Joined[n - 1] \o EOL \o missing[n]
    IN  [contents |-> Joined[Len(missing)], writeFile |-> missing # <<>>]

\* let writeFile = false; ... the loop over the lines.
MergeGitIgnore(gitignoreContents, lines) ==
    AppendMissingLines(gitignoreContents, lines, FALSE)

\* if (writeFile)
GitIgnoreWrite(merged) == merged.writeFile

\* ensureGitIgnoreContents as a function of the file: the file it leaves
\* and whether it called writeFile.
GitIgnoreEnsured(file, lines) ==
    IF file.exists
    THEN LET merged == MergeGitIgnore(file.contents, lines) IN
         IF GitIgnoreWrite(merged)
         THEN [file |-> File(merged.contents), wrote |-> TRUE]
         ELSE [file |-> file, wrote |-> FALSE]
    ELSE [file |-> file, wrote |-> FALSE]

\* Mutant: an empty file gets the separator and the name appended.
FuncIgnoreContentsNoEmptyTest(file, venvName) ==
    IF file.exists
    THEN IF ~Includes(file.contents, venvName)
         THEN file.contents \o EOL \o venvName
         ELSE file.contents
    ELSE venvName

\* The contents ensureVenvInFuncIgnore passes to writeFile: what was read,
\* with the name appended if the contents are not empty and lack it; the
\* name alone if nothing was read or the contents are empty.
FuncIgnoreContents(file, venvName) ==
    IF file.exists
    THEN LET read == file.contents
             funcIgnoreContents ==
                 IF read # <<>> /\ ~Includes(read, venvName)
                 THEN read \o EOL \o venvName
                 ELSE read
         IN  IF funcIgnoreContents = <<>> THEN venvName ELSE funcIgnoreContents
    ELSE venvName

\* ensureVenvInFuncIgnore as a function of the file: writeFile is called
\* on every path.
FuncIgnoreEnsured(file, venvName) ==
    [file |-> File(FuncIgnoreContents(file, venvName)), wrote |-> TRUE]

\* Merges are made while the log is shorter than MaxRuns.
MaxRuns == 2

Logged(op, before, ensured) ==
    Append(log, [op |-> op, before |-> before, after |-> ensured.file,
                 wrote |-> ensured.wrote])

ensureGitIgnoreContents ==
    /\ Len(log) < MaxRuns
    /\ LET ensured == GitIgnoreEnsured(files.gitignore, inputs.lines) IN
          /\ files' = [files EXCEPT !.gitignore = ensured.file]
          /\ log' = Logged("ensureGitIgnoreContents", files.gitignore, ensured)
    /\ UNCHANGED <<nodeVars, treeVars, calls, cacheHistory, treeHistory,
                   inputs, step, tasks>>

ensureVenvInFuncIgnore ==
    /\ Len(log) < MaxRuns
    /\ LET ensured == FuncIgnoreEnsured(files.funcignore, inputs.venvName) IN
          /\ files' = [files EXCEPT !.funcignore = ensured.file]
          /\ log' = Logged("ensureVenvInFuncIgnore", files.funcignore, ensured)
    /\ UNCHANGED <<nodeVars, treeVars, calls, cacheHistory, treeHistory,
                   inputs, step, tasks>>

\* The files and the arguments the merges are checked on.
FileContents ==
    {<<>>, <<"a">>, <<"a", "b">>, <<"b", "\n", "a">>, <<"f", "o", "o", "\n", "b", "a", "r">>}
FileStates == {MissingFile} \cup {File(c) : c \in FileContents}
LineValues == {<<"a">>, <<"b">>, <<"a", "b">>, <<"b", "a", "r">>, <<"b", "a", "z">>}
\* Longest list of lines passed to ensureGitIgnoreContents.
MaxLines == 2
LineLists == UNION {[1..n -> LineValues] : n \in 0..MaxLines}
VenvNames == {<<"a">>, <<"a", "b">>, <<"e", "n", "v">>}

InitIgnore ==
    /\ NodeConstructed
    /\ state = "Running"
    /\ files \in [gitignore : FileStates, funcignore : FileStates]
    /\ inputs \in [lines : LineLists, venvName : VenvNames]
    /\ log = <<>>
    /\ step = [venvName |-> NoVenv, requiresFuncExtensionsInstall |-> FALSE,
               settings |-> <<>>]
    /\ tasks = <<>>

NextIgnore == ensureGitIgnoreContents \/ ensureVenvInFuncIgnore

SpecIgnore == InitIgnore /\ [][NextIgnore]_vars

(***************************************************************************)
(* PythonInitVSCodeStep: executeCore and getTasks                          *)
(***************************************************************************)
\* constants.ts
func == "func"
hostStartCommand == "host start"
extInstallCommand == "extensions install"
extInstallTaskName == "func: extensions install"
hostStartTaskName == "func: host start"
funcWatchProblemMatcher == "$func-watch"
pythonVenvSetting == "pythonVenv"
MacOS == "darwin"
Windows == "win32"
Linux == "linux"

\* venvUtils.convertToVenvPythonCommand, kept as its three arguments.
convertToVenvPythonCommand(command, venvSettingReference, platform) ==
    [command |-> command, venv |-> venvSettingReference, platform |-> platform]

pipInstallLabel == "pipInstall"
venvSettingReference == "${config:azureFunctions.pythonVenv}"
getPipInstallCommand(platform) ==
    convertToVenvPythonCommand("pip install -r requirements.txt", venvSettingReference,
                               platform)

\* Mutant: the package install is preferred to the extension install.
DependsOnPipFirst(requiresFuncExtensionsInstall, venvName) ==
    IF venvName # NoVenv THEN pipInstallLabel
    ELSE IF requiresFuncExtensionsInstall THEN extInstallTaskName
    ELSE Undefined

\* const dependsOn = this.requiresFuncExtensionsInstall ? extInstallTaskName
\*     : this._venvName ? pipInstallLabel : undefined;
DependsOn(requiresFuncExtensionsInstall, venvName) ==
    IF requiresFuncExtensionsInstall THEN extInstallTaskName
    ELSE IF venvName # NoVenv THEN pipInstallLabel
    ELSE Undefined

HostStartTask(dependsOn) ==
    [type |-> func, command |-> hostStartCommand,
     problemMatcher |-> funcWatchProblemMatcher, isBackground |-> TRUE,
     dependsOn |-> dependsOn]

ExtInstallTask ==
    [type |-> func, command |-> extInstallCommand, dependsOn |-> pipInstallLabel,
     problemMatcher |-> <<>>]

PipInstallTask ==
    [label |-> pipInstallLabel, type |-> "shell",
     osx |-> [command |-> getPipInstallCommand(MacOS)],
     windows |-> [command |-> getPipInstallCommand(Windows)],
     linux |-> [command |-> getPipInstallCommand(Linux)],
     problemMatcher |-> <<>>]

\* The list getTasks returns.
GetTasks(requiresFuncExtensionsInstall, venvName) ==
    <<HostStartTask(DependsOn(requiresFuncExtensionsInstall, venvName))>>
    \o (IF venvName # NoVenv
        THEN (IF requiresFuncExtensionsInstall THEN <<ExtInstallTask>> ELSE <<>>)
             \o <<PipInstallTask>>
        ELSE <<>>)

getTasks ==
    /\ tasks' = GetTasks(step.requiresFuncExtensionsInstall, step.venvName)
    /\ UNCHANGED <<nodeVars, treeVars, calls, cacheHistory, treeHistory,
                   files, inputs, log, step>>

\* What getExistingVenv may resolve to: a name, or none.
ExistingVenvs == VenvNames \cup {NoVenv}

\* const gitignoreLines = ['.python_packages', '__pycache__']; the venv
\* name is pushed if there is one.
gitignoreLines(venvName) ==
    <<<<".", "p", "y", "t", "h", "o", "n", "_", "p", "a", "c", "k", "a", "g", "e", "s">>,
      <<"_", "_", "p", "y", "c", "a", "c", "h", "e", "_", "_">>>>
    \o (IF venvName # NoVenv THEN <<venvName>> ELSE <<>>)

\* executeCore, once per step. The step awaits each call before the next
\* and nothing else writes the project directory meanwhile.
executeCore ==
    /\ step.settings = <<>>
    /\ \E venvName \in ExistingVenvs :
          LET funcIgnore ==
                  IF venvName # NoVenv
                  THEN FuncIgnoreEnsured(files.funcignore, venvName)
                  ELSE [file |-> files.funcignore, wrote |-> FALSE]
              gitIgnore == GitIgnoreEnsured(files.gitignore, gitignoreLines(venvName))
              logged ==
                  IF venvName # NoVenv
                  THEN Logged("ensureVenvInFuncIgnore", files.funcignore, funcIgnore)
                  ELSE log
          IN  /\ step' = [step EXCEPT
                    !.venvName = venvName,
                    !.settings =
                        <<[key |-> "scmDoBuildDuringDeployment", value |-> TRUE]>>
                        \o (IF venvName # NoVenv
                            THEN <<[key |-> pythonVenvSetting, value |-> venvName]>>
                            ELSE <<>>)]
              /\ files' = [gitignore |-> gitIgnore.file, funcignore |-> funcIgnore.file]
              /\ inputs' = [lines |-> gitignoreLines(venvName), venvName |-> venvName]
              /\ log' = Append(logged,
                               [op |-> "ensureGitIgnoreContents",
                                before |-> files.gitignore,
                                after |-> gitIgnore.file, wrote |-> gitIgnore.wrote])
    /\ UNCHANGED <<nodeVars, treeVars, calls, cacheHistory, treeHistory, tasks>>

\* A project directory and a step whose base class has decided
\* requiresFuncExtensionsInstall.
InitProject ==
    /\ NodeConstructed
    /\ state = "Running"
    /\ files \in [gitignore : FileStates, funcignore : FileStates]
    /\ inputs = [lines |-> <<>>, venvName |-> NoVenv]
    /\ log = <<>>
    /\ step \in [venvName : {NoVenv}, requiresFuncExtensionsInstall : BOOLEAN,
                  settings : {<<>>}]
    /\ tasks = <<>>

NextProject == executeCore \/ getTasks

SpecProject == InitProject /\ [][NextProject]_vars

(***************************************************************************)
(* Properties of the metadata caches (SpecCache).                          *)
(***************************************************************************)
Accessors == {"getVersion", "getHostJson", "getIsConsumption"}
Returned(c, op) ==
    calls[c].pc = "done" /\ calls[c].op = op /\ calls[c].outcome = "returned"
Finished(c, op) == calls[c].pc = "done" /\ calls[c].op = op

\* C1: between two refreshImpl calls, however many accessor calls are made
\* and whether the fetches succeed or fail, at most one
\* listApplicationSettings fetch is issued for the version, at most one
\* getHostSettings fetch and at most one getAppServicePlan fetch.
C1_AtMostOneFetch ==
    /\ fetches.version <= 1
    /\ fetches.hostJson <= 1
    /\ fetches.plan <= 1

\* All three kinds were fetched once, the version fetch was rejected, and a
\* later getVersion was served without a second fetch.
C1_Witness ==
    /\ fetches = [version |-> 1, hostJson |-> 1, plan |-> 1]
    /\ lastResponse.version = Rejected
    /\ Returned("c1", "getVersion")
    /\ calls["c1"].hit

\* C2: refreshImpl clears the three caches together, and after it no
\* accessor returns, and no cache holds, a value computed before that
\* refresh: a value served from a cache was fetched after the refresh.
C2_RefreshInvalidatesAll ==
    /\ \A c \in Callers :
          calls[c].pc = "refreshImpl:getState" =>
              /\ cachedVersion = Undefined
              /\ cachedHostJson = UndefinedObj
              /\ cachedIsConsumption = Undefined
    /\ ~staleCache.version /\ ~staleCache.hostJson /\ ~staleCache.isConsumption
    /\ \A c \in Callers : \A op \in Accessors :
          Returned(c, op) => ~calls[c].stale
    /\ \A c \in Callers :
          /\ Returned(c, "getVersion") /\ calls[c].hit => fetches.version = 1
          /\ Returned(c, "getIsConsumption") /\ calls[c].hit => fetches.plan = 1

\* A refresh has run (only it sets 'Unknown') and the getHostJson after it
\* fetched the host settings and the version anew.
C2_Witness ==
    /\ state = "Unknown"
    /\ Returned("c1", "getHostJson")
    /\ ~calls["c1"].hit
    /\ fetches.hostJson = 1 /\ fetches.version = 1

\* C3: refreshImpl always returns; the state is then the value getState
\* answered, or 'Unknown' when getState was rejected, and the three caches
\* are empty.
C3_RefreshNeverFails ==
    \A c \in Callers :
        Finished(c, "refreshImpl") =>
            /\ calls[c].outcome = "returned"
            /\ calls[c].data \in StateResponses
            /\ calls[c].data = Rejected => state = "Unknown"
            /\ calls[c].data # Rejected => state = calls[c].data.value
            /\ cachedVersion = Undefined
            /\ cachedHostJson = UndefinedObj
            /\ cachedIsConsumption = Undefined

C3_Witness ==
    /\ Returned("c1", "refreshImpl")
    /\ calls["c1"].data = Rejected
    /\ state = "Unknown"

\* The version the claim expects for an answer of listApplicationSettings.
ExpectedVersion(resp) ==
    IF resp = Rejected THEN latestGAVersion
    ELSE IF "properties" \notin DOMAIN resp.value THEN latestGAVersion
    ELSE IF VersionKey \notin DOMAIN resp.value.properties THEN latestGAVersion
    ELSE IF resp.value.properties[VersionKey] \notin FuncVersion THEN latestGAVersion
    ELSE resp.value.properties[VersionKey]

\* C4: getVersion always returns: the default version when the fetch was
\* rejected, the answer has no properties, the setting is absent or is not
\* a known version, and the parsed version otherwise.  What it returned is
\* what the cache holds, and no second fetch is issued before a refresh.
C4_VersionFallback ==
    /\ \A c \in Callers :
          Finished(c, "getVersion") =>
              /\ calls[c].outcome = "returned"
              /\ calls[c].result = ExpectedVersion(lastResponse.version)
              /\ calls[c].result = cachedVersion
    /\ lastResponse.version # NoResponse =>
          /\ cachedVersion = ExpectedVersion(lastResponse.version)
          /\ fetches.version = 1

\* The fetch was rejected, the default was cached, and a later call got
\* the default from the cache.
C4_Witness ==
    /\ Returned("c1", "getVersion")
    /\ calls["c1"].hit
    /\ lastResponse.version = Rejected
    /\ calls["c1"].result = latestGAVersion

\* Two strings are equal ignoring case.
CasePairs == {<<u, UpperToLower[u]>> : u \in DOMAIN UpperToLower}
SameLetter(x, y) == x = y \/ <<x, y>> \in CasePairs \/ <<y, x>> \in CasePairs
EqualsIgnoreCase(a, b) ==
    Len(a) = Len(b) /\ \A i \in 1..Len(a) : SameLetter(a[i], b[i])

\* The flag the claim expects for an answer of getAppServicePlan (a missing
\* tier is an undefined or an empty one).
ExpectedIsConsumption(resp) ==
    \/ resp = Rejected
    \/ resp.value = UndefinedObj
    \/ "sku" \notin DOMAIN resp.value
    \/ "tier" \notin DOMAIN resp.value.sku
    \/ Len(resp.value.sku.tier) = 0
    \/ EqualsIgnoreCase(resp.value.sku.tier, Dynamic)

\* C5: getIsConsumption returns true exactly when the plan is absent, has
\* no SKU, has no tier or has the tier 'dynamic' in any case, and true when
\* the fetch was rejected; what it returned, a false included, is what the
\* cache holds and what later calls return without a second fetch.
C5_IsConsumption ==
    /\ \A c \in Callers :
          Finished(c, "getIsConsumption") =>
              /\ calls[c].outcome = "returned"
              /\ calls[c].result = Bool(ExpectedIsConsumption(lastResponse.plan))
              /\ calls[c].result = cachedIsConsumption
    /\ lastResponse.plan # NoResponse =>
          /\ cachedIsConsumption = Bool(ExpectedIsConsumption(lastResponse.plan))
          /\ fetches.plan = 1

\* A cached false was returned by a later call.
C5_Witness ==
    /\ Returned("c1", "getIsConsumption")
    /\ calls["c1"].hit
    /\ calls["c1"].result = "false"

\* C6: every getApplicationSettings call awaits its own
\* listApplicationSettings and ends by what that answered: the properties,
\* the empty mapping when the answer has none, or the rejection thrown to
\* the caller; no step of the call changes the state or a cache.
C6_ApplicationSettings ==
    /\ [](\A c \in Callers :
            Finished(c, "getApplicationSettings") =>
                /\ calls[c].data \in SettingsResponses
                /\ ~calls[c].hit
                /\ calls[c].data = Rejected => calls[c].outcome = "threw"
                /\ calls[c].data # Rejected =>
                      /\ calls[c].outcome = "returned"
                      /\ "properties" \in DOMAIN calls[c].data.value =>
                            calls[c].result = calls[c].data.value.properties
                      /\ "properties" \notin DOMAIN calls[c].data.value =>
                            calls[c].result = EmptySettings)
    /\ [][\A c \in Callers :
            calls'[c].op = "getApplicationSettings" /\ calls'[c] # calls[c] =>
                UNCHANGED <<nodeVars, cacheHistory>>]_vars

\* The call threw while a version was cached.
C6_Witness ==
    /\ Finished("c1", "getApplicationSettings")
    /\ calls["c1"].outcome = "threw"
    /\ cachedVersion # Undefined

\* The call returned the empty mapping for an answer without properties.
C6_WitnessEmpty ==
    /\ Returned("c1", "getApplicationSettings")
    /\ "properties" \notin DOMAIN calls["c1"].data.value
    /\ calls["c1"].result = EmptySettings

(***************************************************************************)
(* Properties of the children (SpecTree).                                  *)
(***************************************************************************)
\* C7: over any sequence of loads and refreshes the functions child and
\* the proxies child are created at most once each, and every load that
\* returns hands out the functions and proxies instances the first
\* completed load returned.
C7_FunctionsAndProxiesOnce ==
    /\ created.functions <= 1
    /\ created.proxies <= 1
    /\ \A c \in Callers :
          Returned(c, "loadMoreChildrenImpl") =>
              /\ calls[c].result[1] # UndefinedObj
              /\ calls[c].result[6] # UndefinedObj
              /\ calls[c].result[1] = firstReturned.functions
              /\ calls[c].result[6] = firstReturned.proxies

\* A second load returned, after a refresh that set 'Unknown'.
C7_Witness ==
    /\ Returned("c1", "loadMoreChildrenImpl")
    /\ created.deployments = 2
    /\ state = "Unknown"

\* C8: a load that returns has created a deployments node of its own, the
\* newest one, from the site configuration and source control it fetched
\* itself; the node the tree item holds is the one created by the most
\* recently completed load.
C8_DeploymentsRecreated ==
    /\ \A c \in Callers :
          Returned(c, "loadMoreChildrenImpl") =>
              /\ calls[c].result[5] = calls[c].deployments
              /\ calls[c].result[5].siteConfig = calls[c].siteConfig
              /\ calls[c].result[5].sourceControl = calls[c].sourceControl
              /\ calls[c].result[5].n = created.deployments
              /\ deploymentsNode = calls[c].result[5]
    /\ lastLoaded # UndefinedObj => deploymentsNode = lastLoaded

\* The second load returned a node built from other answers than the first.
C8_Witness ==
    /\ Returned("c1", "loadMoreChildrenImpl")
    /\ deploymentsNode.n = 2
    /\ deploymentsNode.siteConfig = [scmType |-> "GitHub"]
    /\ calls["c1"].result[1].n = 1

\* The lookup table as the claim states it.
SettingsMarkers == {AppSettingsTreeItem_contextValue, AppSettingTreeItem_contextValue}
ProxyMarkers ==
    {ProxiesTreeItem_contextValue, ProxyTreeItem_contextValue,
     ProxyTreeItem_readOnlyContextValue}
DeploymentMarkers ==
    {DeploymentsTreeItem_contextValueConnected,
     DeploymentsTreeItem_contextValueUnconnected, DeploymentTreeItem_contextValue}
        \cup {m \in ContextValues : m.type = "string" /\ m.value \in DeploymentStrings}
FunctionMarkers ==
    {m \in ContextValues \ DeploymentMarkers :
        m.type = "RegExp" /\ m.parts \cap FunctionResources # {}}
TableMarkers == SettingsMarkers \cup ProxyMarkers \cup DeploymentMarkers \cup FunctionMarkers
MappedChild(m) ==
    IF m \in SettingsMarkers THEN appSettingsTreeItem
    ELSE IF m \in ProxyMarkers THEN proxiesTreeItem
    ELSE IF m \in DeploymentMarkers THEN deploymentsNode
    ELSE functionsTreeItem
Matching(args) == {i \in 1..Len(args) : args[i] \in TableMarkers}
FirstMatching(args) == CHOOSE i \in Matching(args) : \A j \in Matching(args) : i <= j

\* C9: the first marker of the list that matches the lookup table decides:
\* pickTreeItemImpl returns what the node holds for the child mapped to it
\* (app settings, proxies, deployments or functions), whatever the later
\* markers match; with no matching marker it returns undefined.
C9_FirstMatchWins ==
    \A c \in Callers :
        Finished(c, "pickTreeItemImpl") =>
            /\ calls[c].outcome = "returned"
            /\ Matching(calls[c].args) # {} =>
                  calls[c].result = MappedChild(calls[c].args[FirstMatching(calls[c].args)])
            /\ Matching(calls[c].args) = {} => calls[c].result = UndefinedObj

\* The proxies marker came before a function pattern and the proxies child
\* was returned, both children existing.
C9_Witness ==
    /\ Returned("c1", "pickTreeItemImpl")
    /\ calls["c1"].args = <<ProxiesTreeItem_contextValue, RegExpValue("Functions;", {"Functions"})>>
    /\ functionsTreeItem # UndefinedObj
    /\ calls["c1"].result = proxiesTreeItem
    /\ calls["c1"].result # functionsTreeItem

\* C10 as stated: in every state a matching marker yields a child, and
\* undefined is returned only when no marker matches.
C10_Original ==
    \A c \in Callers :
        Finished(c, "pickTreeItemImpl") =>
            (Matching(calls[c].args) # {} <=> calls[c].result # UndefinedObj)

\* C10 amended: with no matching marker pickTreeItemImpl returns undefined;
\* with a matching marker it returns a child whenever a load has completed
\* or the first matching marker is a settings marker, and when it returns
\* undefined all the same, the child of the first matching marker is one
\* that a load creates and that has not been created yet.
C10_ChildOnceLoaded ==
    \A c \in Callers :
        Finished(c, "pickTreeItemImpl") =>
            LET args == calls[c].args IN
            /\ Matching(args) = {} => calls[c].result = UndefinedObj
            /\ Matching(args) # {} =>
                  LET first == args[FirstMatching(args)] IN
                  /\ firstReturned # UndefinedObj \/ first \in SettingsMarkers =>
                        calls[c].result # UndefinedObj
                  /\ calls[c].result = UndefinedObj =>
                        \/ first \in ProxyMarkers /\ created.proxies = 0
                        \/ first \in DeploymentMarkers /\ created.deployments = 0
                        \/ first \in FunctionMarkers /\ created.functions = 0

\* After a completed load a proxy marker yields the proxies child.
C10_Witness ==
    /\ Returned("c1", "pickTreeItemImpl")
    /\ firstReturned # UndefinedObj
    /\ calls["c1"].args = <<StringValue("azFuncRemoteFunctions"), ProxyTreeItem_contextValue>>
    /\ calls["c1"].result = firstReturned.proxies

(***************************************************************************)
(* Properties of the ignore-file merges (SpecIgnore).                      *)
(***************************************************************************)
\* The merges of one variant in the log, oldest first.
Merges(op) == SelectSeq(log, LAMBDA m : m.op = op)
MergeOps == {"ensureGitIgnoreContents", "ensureVenvInFuncIgnore"}

\* C11: the merge is idempotent in both variants: from every file state
\* (missing, empty, any contents) and for every input, a second merge with
\* the same input leaves the file with exactly the contents it had after
\* the first.
C11_MergeIdempotent ==
    \A op \in MergeOps : \A i, j \in DOMAIN Merges(op) :
        i < j => /\ Merges(op)[j].before = Merges(op)[i].after
                 /\ Merges(op)[j].after = Merges(op)[i].after

\* A merge was applied twice and the first application changed the file.
C11_Witness ==
    /\ Len(log) = 2
    /\ log[1].op = log[2].op
    /\ log[1].after # log[1].before
    /\ log[1].before.exists
    /\ log[1].before.contents # <<>>
    /\ log[2].after = log[1].after

\* The contents after the first n lines, when exactly the lines whose
\* indices are in S are appended, each after a separator.
RECURSIVE AppendedUpTo(_, _, _, _)
AppendedUpTo(original, lines, S, n) ==
    IF n = 0 THEN original
    ELSE IF n \in S
    THEN AppendedUpTo(original, lines, S, n - 1) \o EOL \o lines[n]
    ELSE AppendedUpTo(original, lines, S, n - 1)

\* C12: when the file exists, ensureGitIgnoreContents only appends: the
\* result is the original contents followed, in input order, by a separator
\* and each input line that is not a substring of the contents accumulated
\* so far; lines already present are not appended and nothing is removed.
C12_GitIgnoreAppendOnly ==
    \A i \in DOMAIN log :
        (log[i].op = "ensureGitIgnoreContents" /\ log[i].before.exists) =>
            LET original == log[i].before.contents
                lines == inputs.lines
            IN  /\ log[i].after.exists
                /\ \E S \in SUBSET (DOMAIN lines) :
                      /\ log[i].after.contents = AppendedUpTo(original, lines, S, Len(lines))
                      /\ \A n \in DOMAIN lines :
                            n \in S <=>
                                ~Includes(AppendedUpTo(original, lines, S, n - 1), lines[n])

\* The scenario: 'foo\nbar' merged with ['bar', 'baz'] gains only 'baz'.
C12_Witness ==
    /\ log # <<>>
    /\ log[1].op = "ensureGitIgnoreContents"
    /\ log[1].before = File(<<"f", "o", "o", "\n", "b", "a", "r">>)
    /\ inputs.lines = <<<<"b", "a", "r">>, <<"b", "a", "z">>>>
    /\ log[1].after = File(<<"f", "o", "o", "\n", "b", "a", "r", "\n", "b", "a", "z">>)

\* C13: a merge into an existing file, in both variants, writes the file
\* only if at least one line was added; when every requested line is
\* already present no write is issued.
C13_WriteOnlyIfAdded ==
    \A i \in DOMAIN log :
        (log[i].before.exists /\ log[i].wrote) => log[i].after # log[i].before

\* C14: when the file is missing, ensureGitIgnoreContents creates and writes
\* nothing, and ensureVenvInFuncIgnore creates the file with exactly the venv
\* name; ensureVenvInFuncIgnore also leaves exactly the venv name in a file
\* that exists and is empty.
C14_MissingOrEmptyFile ==
    \A i \in DOMAIN log :
        /\ (log[i].op = "ensureGitIgnoreContents" /\ ~log[i].before.exists) =>
               (log[i].after = MissingFile /\ ~log[i].wrote)
        /\ (log[i].op = "ensureVenvInFuncIgnore"
                /\ (~log[i].before.exists \/ log[i].before = File(<<>>))) =>
               (log[i].after = File(inputs.venvName) /\ log[i].wrote)

\* ensureGitIgnoreContents found no file and ensureVenvInFuncIgnore an empty one.
C14_Witness ==
    /\ Len(log) = 2
    /\ log[1].op = "ensureGitIgnoreContents"
    /\ log[1].before = MissingFile
    /\ inputs.lines # <<>>
    /\ files.gitignore = MissingFile
    /\ log[2].op = "ensureVenvInFuncIgnore"
    /\ log[2].before = File(<<>>)
    /\ files.funcignore = File(inputs.venvName)

(***************************************************************************)
(* Properties of the task list (SpecProject).                              *)
(***************************************************************************)
\* The name dependsOn refers to a task by: its label, or for a func task
\* without a label the name the func task provider gives its command.
TaskName(task) ==
    IF "label" \in DOMAIN task THEN task.label
    ELSE IF task.command = extInstallCommand THEN extInstallTaskName
    ELSE hostStartTaskName

\* C15: with no virtual environment discovered, getTasks returns exactly
\* one task, host-start, with dependsOn undefined, whatever
\* requiresFuncExtensionsInstall is.
C15_NoVenvHostStartAlone ==
    [][(getTasks /\ step.venvName = NoVenv) =>
          /\ Len(tasks') = 1
          /\ tasks'[1].type = func
          /\ tasks'[1].command = hostStartCommand
          /\ GetProp(tasks'[1], "dependsOn") = Undefined]_vars

\* The tasks of a list with a given command, label or name, by index.
WithCommand(list, command) ==
    {i \in DOMAIN list : GetProp(list[i], "command") = command}
WithLabel(list, label) == {i \in DOMAIN list : GetProp(list[i], "label") = label}
Named(list, name) == {i \in DOMAIN list : TaskName(list[i]) = name}
Platforms == {"osx", "windows", "linux"}

\* The chain the claim describes for a list returned with a venv.
VenvChain(list, requiresFuncExtensionsInstall) ==
    /\ WithCommand(list, hostStartCommand) = {1}
    /\ \E pip \in DOMAIN list :
          /\ WithLabel(list, "pipInstall") = {pip}
          /\ Named(list, "pipInstall") = {pip}
          /\ GetProp(list[pip], "dependsOn") = Undefined
          /\ \A platform \in Platforms :
                /\ platform \in DOMAIN list[pip]
                /\ "command" \in DOMAIN list[pip][platform]
          /\ IF requiresFuncExtensionsInstall
             THEN \E ext \in DOMAIN list :
                    /\ WithCommand(list, extInstallCommand) = {ext}
                    /\ Named(list, list[1].dependsOn) = {ext}
                    /\ list[ext].dependsOn = "pipInstall"
                    /\ Len(list) = 3
             ELSE /\ list[1].dependsOn = "pipInstall"
                  /\ WithCommand(list, extInstallCommand) = {}
                  /\ Len(list) = 2

\* C16: with a virtual environment discovered, getTasks returns a chain
\* ending in host-start: host-start depends on the extension install, which
\* depends on 'pipInstall', if the extension install is required; otherwise
\* host-start depends on 'pipInstall' and there is no extension-install
\* task. 'pipInstall' has no dependency and a command for each of osx,
\* windows and linux.
C16_VenvChain ==
    [][(getTasks /\ step.venvName # NoVenv) =>
          VenvChain(tasks', step.requiresFuncExtensionsInstall)]_vars

\* getTasks returned three tasks after executeCore discovered a venv.
C16_Witness ==
    /\ step.venvName # NoVenv
    /\ step.requiresFuncExtensionsInstall
    /\ Len(step.settings) = 2
    /\ Len(tasks) = 3

\* Following dependsOn from a task of the list reaches, within n steps, a
\* task without a dependency.
RECURSIVE ReachesRoot(_, _, _)
ReachesRoot(list, i, n) ==
    LET dependsOn == GetProp(list[i], "dependsOn") IN
    IF dependsOn = Undefined THEN TRUE
    ELSE IF n = 0 THEN FALSE
    ELSE \E j \in Named(list, dependsOn) : ReachesRoot(list, j, n - 1)

\* Every dependsOn names a task of the list.
Closed(list) ==
    \A i \in DOMAIN list :
        GetProp(list[i], "dependsOn") # Undefined =>
            Named(list, list[i].dependsOn) # {}

\* C20: for every combination of venv discovered and
\* requiresFuncExtensionsInstall, the list getTasks returns is closed and
\* acyclic under dependsOn: every task named by a dependsOn is in the list,
\* and following dependsOn from host-start reaches a task without a
\* dependency.
C20_ClosedAndAcyclic ==
    [][getTasks => (Closed(tasks') /\ ReachesRoot(tasks', 1, Len(tasks')))]_vars

(***************************************************************************)
(* Properties of overlapping calls (SpecOverlapRefresh, SpecOverlapOnce).  *)
(***************************************************************************)
\* C17: an accessor call that started before a refreshImpl and resumes after
\* it does not undo the invalidation: no cache is ever set to a value
\* computed from a remote fetch issued before that refresh.
C17_NoCacheFromBeforeRefresh ==
    /\ cachedVersion # Undefined => ~staleCache.version
    /\ cachedHostJson # UndefinedObj => ~staleCache.hostJson
    /\ cachedIsConsumption # Undefined => ~staleCache.isConsumption

\* C18: when calls on one node overlap, two calls of the same cached
\* accessor issue a single remote fetch between them, and two
\* loadMoreChildrenImpl calls create the functions child and the proxies
\* child once each.
C18_OnceUnderOverlap ==
    /\ \A kind \in {"version", "plan"} : fetches[kind] <= 1
    /\ \A child \in {"functions", "proxies"} : created[child] <= 1

\* C19: in every reachable state, a cached host configuration comes with a
\* cached version, and was parsed with exactly that version.
C19_HostJsonInStepWithVersion ==
    cachedHostJson # UndefinedObj =>
        /\ cachedVersion # Undefined
        /\ cachedHostJson.version = cachedVersion


====
